---- MODULE Spec2Model ----
(***************************************************************************)
(* Shopping-list REST API (main.py): the relational store (lists, items)   *)
(* and the five authenticated handlers get_lists, create_list,             *)
(* update_list, get_items and update_item.                                 *)
(*                                                                         *)
(* Spec      every request runs atomically, one after another.             *)
(* SpecConc  create_list / update_list run statement by statement, so the  *)
(*           open-list query and the commit of different requests may      *)
(*           interleave.                                                   *)
(***************************************************************************)
EXTENDS Integers, Naturals, Sequences, FiniteSets, Bags, TLC

\* ---- bounds ----------------------------------------------------------
MaxLists == 2
MaxItems == 2
MaxReq == 2

\* ---- value encodings ---------------------------------------------------
\* Optional[T]: None is the empty set, a present value v is {v}.
NoneV == {}
Some(v) == {v}
OptBool == {NoneV, Some(TRUE), Some(FALSE)}

\* A path segment that is not the text of a UUID.
Malformed == 0

Users == {"A", "B"}
Names == {"Milk", "Eggs"}

\* Identifiers a request may name: every identifier that can be stored, one
\* well-formed identifier that is never stored, and a malformed one.
ListIdInputs == 0..(MaxLists + 1)
ItemIdInputs == 0..(MaxItems + 1)

SubmitItem == [name : Names, open : BOOLEAN]

SeqsUpTo(S, n) == UNION {[1..k -> S] : k \in 0..n}

\* Optional[list[SubmitItem]]
SubmitItemsInputs == {NoneV} \cup {Some(s) : s \in SeqsUpTo(SubmitItem, MaxItems)}

\* ---- state ---------------------------------------------------------------
VARIABLES lists, items, req, resp, pending

vars == <<lists, items, req, resp, pending>>

\* ---- responses -----------------------------------------------------------
\* A handler's result: HTTP status, response body (a sequence of rows) and
\* the committed tables.
Result(status, body, ls, its) == [status |-> status, detail |-> "", body |-> body, lists |-> ls, items |-> its]

\* raise HTTPException(status_code, detail): nothing is committed.
HTTPException(status, detail, ls, its) == [status |-> status, detail |-> detail, body |-> <<>>, lists |-> ls, items |-> its]

\* ---- queries -------------------------------------------------------------
\* Faulty variants of the open-list query: filtering on open == False, and
\* leaving out the user_id filter.
HasOpenList_closed(ls, u) == \E k \in DOMAIN ls : ~ls[k].open /\ ls[k].user_id = u

HasOpenList_anyuser(ls, u) == \E k \in DOMAIN ls : ls[k].open

\* select(ShoppingList).where(open == True, user_id == current_user.id).first() is not None
HasOpenList(ls, u) == \E k \in DOMAIN ls : ls[k].open /\ ls[k].user_id = u

\* Faulty variant of the ownership lookup: the user_id filter left out.
OwnedList_anyuser(ls, u, list_id) == {k \in DOMAIN ls : ls[k].id = list_id}

\* select(ShoppingList).where(id == list_id, user_id == current_user.id): matching row indexes
OwnedList(ls, u, list_id) == {k \in DOMAIN ls : ls[k].id = list_id /\ ls[k].user_id = u}

\* select(Item).where(Item.id == item_id, Item.list_id == list_id): matching row indexes
ItemOfList(its, list_id, item_id) == {k \in DOMAIN its : its[k].id = item_id /\ its[k].list_id = list_id}

IsItemOf(list_id, it) == it.list_id = list_id

\* shopping_list.items: the rows of the list in insertion order
ItemsOf(its, list_id) == SelectSeq(its, LAMBDA it : IsItemOf(list_id, it))

\* ---- request validation done by the framework before the handler runs ----
\* SubmitShoppingList.open is declared `bool`: a null or absent value is
\* rejected with 422 and the handler never runs.
ValidSubmitShoppingList(open) == open # NoneV

\* list_id: uuid.UUID path parameter (update_list, get_items)
ValidUUIDParam(id) == id # Malformed

\* ---- handlers ------------------------------------------------------------
NewItems(its, list_id, sub) == [k \in 1..Len(sub) |-> [id |-> Len(its) + k, list_id |-> list_id, name |-> sub[k].name, open |-> sub[k].open]]

\* Faulty variant of the insert: the emptiness check left out.
create_list_insert_noempty(ls, its, u, sub) ==
    IF sub = NoneV THEN HTTPException(500, "Internal Server Error", ls, its)
    ELSE LET s == CHOOSE x \in sub : TRUE
             row == [id |-> Len(ls) + 1, user_id |-> u, open |-> TRUE]
         IN Result(200, <<row>>, Append(ls, row), its \o NewItems(its, row.id, s))

\* Lines 257-273: the statements of create_list after the open-list query.
create_list_insert(ls, its, u, sub) ==
    IF sub = NoneV THEN HTTPException(500, "Internal Server Error", ls, its)
    ELSE LET s == CHOOSE x \in sub : TRUE
             row == [id |-> Len(ls) + 1, user_id |-> u, open |-> TRUE]
         IN IF Len(s) = 0 THEN HTTPException(400, "Cannot create an empty shopping list", ls, its)
            ELSE Result(200, <<row>>, Append(ls, row), its \o NewItems(its, row.id, s))

\* Faulty variant of create_list: the emptiness check made before the open-list query.
create_list_emptyfirst(ls, its, u, open, sub) ==
    IF ~ValidSubmitShoppingList(open) THEN HTTPException(422, "validation error", ls, its)
    ELSE IF sub = Some(<<>>) THEN HTTPException(400, "Cannot create an empty shopping list", ls, its)
    ELSE IF HasOpenList(ls, u) THEN HTTPException(403, "Cannot have more than one open list", ls, its)
    ELSE create_list_insert(ls, its, u, sub)

\* Faulty variant of create_list: the new list takes the submitted open value.
create_list_submitted(ls, its, u, open, sub) ==
    LET r == create_list_insert(ls, its, u, sub)
    IN IF ~ValidSubmitShoppingList(open) THEN HTTPException(422, "validation error", ls, its)
       ELSE IF HasOpenList(ls, u) THEN HTTPException(403, "Cannot have more than one open list", ls, its)
       ELSE IF r.status # 200 THEN r
       ELSE LET row == [r.body[1] EXCEPT !.open = (open = Some(TRUE))]
            IN Result(200, <<row>>, Append(ls, row), r.items)

create_list(ls, its, u, open, sub) ==
    IF ~ValidSubmitShoppingList(open) THEN HTTPException(422, "validation error", ls, its)
    ELSE IF HasOpenList(ls, u) THEN HTTPException(403, "Cannot have more than one open list", ls, its)
    ELSE create_list_insert(ls, its, u, sub)

\* Lines 297-315: the statements of update_list after the open-list query.
update_list_apply(ls, its, u, list_id, open) ==
    LET found == OwnedList(ls, u, list_id)
    IN IF found = {} THEN HTTPException(404, "List not found", ls, its)
       ELSE LET k == CHOOSE x \in found : TRUE
            IN IF open = NoneV THEN Result(204, <<ls[k]>>, ls, its)
               ELSE LET row == [ls[k] EXCEPT !.open = (open = Some(TRUE))]
                    IN Result(200, <<row>>, [ls EXCEPT ![k] = row], its)

\* Faulty variant of the update_list body: the open-list query left out.
update_list_body_nocheck(ls, its, u, list_id, open) == update_list_apply(ls, its, u, list_id, open)

\* The handler body of update_list, as written (lines 285-315).
update_list_body(ls, its, u, list_id, open) ==
    IF open = Some(TRUE) /\ HasOpenList(ls, u) THEN HTTPException(400, "Cannot have more than one open list", ls, its)
    ELSE update_list_apply(ls, its, u, list_id, open)

update_list(ls, its, u, list_id, open) ==
    IF ~ValidUUIDParam(list_id) \/ ~ValidSubmitShoppingList(open) THEN HTTPException(422, "validation error", ls, its)
    ELSE update_list_body(ls, its, u, list_id, open)

get_items(ls, its, u, list_id) ==
    IF ~ValidUUIDParam(list_id) THEN HTTPException(422, "validation error", ls, its)
    ELSE IF OwnedList(ls, u, list_id) = {} THEN HTTPException(404, "List not found", ls, its)
    ELSE Result(200, ItemsOf(its, list_id), ls, its)

\* Faulty variant of update_item: the submitted name is stored too.
update_item_rename(ls, its, u, list_id, item_id, name, open) ==
    IF list_id = Malformed THEN HTTPException(500, "Internal Server Error", ls, its)
    ELSE IF OwnedList(ls, u, list_id) = {} THEN HTTPException(404, "Item not found", ls, its)
    ELSE IF item_id = Malformed THEN HTTPException(500, "Internal Server Error", ls, its)
    ELSE LET found == ItemOfList(its, list_id, item_id)
         IN IF found = {} THEN HTTPException(404, "Item not found", ls, its)
            ELSE LET k == CHOOSE x \in found : TRUE
                     row == [its[k] EXCEPT !.open = open, !.name = name]
                 IN Result(200, <<row>>, ls, [its EXCEPT ![k] = row])

\* list_id and item_id are untyped path parameters here: uuid.UUID(text)
\* raises ValueError on malformed text, which no handler catches (500).
update_item(ls, its, u, list_id, item_id, name, open) ==
    IF list_id = Malformed THEN HTTPException(500, "Internal Server Error", ls, its)
    ELSE IF OwnedList(ls, u, list_id) = {} THEN HTTPException(404, "Item not found", ls, its)
    ELSE IF item_id = Malformed THEN HTTPException(500, "Internal Server Error", ls, its)
    ELSE LET found == ItemOfList(its, list_id, item_id)
         IN IF found = {} THEN HTTPException(404, "Item not found", ls, its)
            ELSE LET k == CHOOSE x \in found : TRUE
                     row == [its[k] EXCEPT !.open = open]
                 IN Result(200, <<row>>, ls, [its EXCEPT ![k] = row])

\* Faulty variant of the get_lists filter: the filtered query leaves out the user_id filter.
IsListOf_nouser(u, open, l) == IF open = NoneV THEN l.user_id = u ELSE open = Some(l.open)

IsListOf(u, open, l) == l.user_id = u /\ (open = NoneV \/ open = Some(l.open))

get_lists(ls, its, u, open) ==
    Result(200, SelectSeq(ls, LAMBDA l : IsListOf(u, open, l)), ls, its)

\* ---- actions (atomic requests) -----------------------------------------
\* req is the request being answered and resp its response; both are cleared
\* when the response has been delivered to the client.
NoReq == [op |-> "none", user |-> "A", list_id |-> Malformed, item_id |-> Malformed, open |-> NoneV, sub |-> NoneV, name |-> "Milk"]
NoResp == [status |-> 0, detail |-> "", body |-> <<>>]

Idle == req = NoReq /\ pending = EmptyBag

Init ==
    /\ lists = <<>>
    /\ items = <<>>
    /\ req = NoReq
    /\ resp = NoResp
    /\ pending = EmptyBag

\* session.commit() and the response; the guard keeps the tables within the bounds.
Commit(r) ==
    /\ Len(r.lists) <= MaxLists
    /\ Len(r.items) <= MaxItems
    /\ lists' = r.lists
    /\ items' = r.items
    /\ resp' = [status |-> r.status, detail |-> r.detail, body |-> r.body]

CreateList ==
    /\ Idle
    /\ \E u \in Users, open \in OptBool, sub \in SubmitItemsInputs :
        /\ Commit(create_list(lists, items, u, open, sub))
        /\ req' = [NoReq EXCEPT !.op = "create_list", !.user = u, !.open = open, !.sub = sub]
        /\ UNCHANGED pending

UpdateList ==
    /\ Idle
    /\ \E u \in Users, list_id \in ListIdInputs, open \in OptBool :
        /\ Commit(update_list(lists, items, u, list_id, open))
        /\ req' = [NoReq EXCEPT !.op = "update_list", !.user = u, !.list_id = list_id, !.open = open]
        /\ UNCHANGED pending

GetItems ==
    /\ Idle
    /\ \E u \in Users, list_id \in ListIdInputs :
        /\ Commit(get_items(lists, items, u, list_id))
        /\ req' = [NoReq EXCEPT !.op = "get_items", !.user = u, !.list_id = list_id]
        /\ UNCHANGED pending

UpdateItem ==
    /\ Idle
    /\ \E u \in Users, list_id \in ListIdInputs, item_id \in ItemIdInputs, name \in Names, open \in BOOLEAN :
        /\ Commit(update_item(lists, items, u, list_id, item_id, name, open))
        /\ req' = [NoReq EXCEPT !.op = "update_item", !.user = u, !.list_id = list_id, !.item_id = item_id, !.open = Some(open), !.name = name]
        /\ UNCHANGED pending

GetLists ==
    /\ Idle
    /\ \E u \in Users, open \in OptBool :
        /\ Commit(get_lists(lists, items, u, open))
        /\ req' = [NoReq EXCEPT !.op = "get_lists", !.user = u, !.open = open]
        /\ UNCHANGED pending

\* The response reaches the client; the next request of the sequence may start.
Deliver ==
    /\ req # NoReq
    /\ req' = NoReq
    /\ resp' = NoResp
    /\ UNCHANGED <<lists, items, pending>>

Next == CreateList \/ UpdateList \/ GetItems \/ UpdateItem \/ GetLists \/ Deliver

Spec == Init /\ [][Next]_vars

\* ---- actions (interleaved requests) -----------------------------------
\* pending is the bag of requests in flight: each has made its open-list query
\* and has the rest of its handler to run; other requests run in between.
ConcSubInputs == {Some(<<>>), Some(<<[name |-> "Milk", open |-> TRUE]>>)}

InFlight(op, u, list_id, open, sub) == [op |-> op, user |-> u, list_id |-> list_id, open |-> open, sub |-> sub]

Respond(r) == resp' = [status |-> r.status, detail |-> r.detail, body |-> r.body]

\* create_list, lines 246-255: the open-list query and its refusal.
CreateListQuery ==
    /\ BagCardinality(pending) < MaxReq
    /\ \E u \in Users, sub \in ConcSubInputs :
        /\ IF HasOpenList(lists, u)
           THEN Respond(HTTPException(403, "Cannot have more than one open list", lists, items)) /\ UNCHANGED pending
           ELSE pending' = pending (+) SetToBag({InFlight("create_list", u, Malformed, Some(TRUE), sub)}) /\ UNCHANGED resp
        /\ UNCHANGED <<lists, items, req>>

\* create_list, lines 257-273.
CreateListInsert ==
    \E q \in BagToSet(pending) :
        /\ q.op = "create_list"
        /\ Commit(create_list_insert(lists, items, q.user, q.sub))
        /\ pending' = pending (-) SetToBag({q})
        /\ UNCHANGED req

\* update_list, lines 285-295.
UpdateListQuery ==
    /\ BagCardinality(pending) < MaxReq
    /\ \E u \in Users, list_id \in 1..(MaxLists + 1), open \in BOOLEAN :
        /\ IF open /\ HasOpenList(lists, u)
           THEN Respond(HTTPException(400, "Cannot have more than one open list", lists, items)) /\ UNCHANGED pending
           ELSE pending' = pending (+) SetToBag({InFlight("update_list", u, list_id, Some(open), NoneV)}) /\ UNCHANGED resp
        /\ UNCHANGED <<lists, items, req>>

\* update_list, lines 297-315.
UpdateListApply ==
    \E q \in BagToSet(pending) :
        /\ q.op = "update_list"
        /\ Commit(update_list_apply(lists, items, q.user, q.list_id, q.open))
        /\ pending' = pending (-) SetToBag({q})
        /\ UNCHANGED req

NextConc == CreateListQuery \/ CreateListInsert \/ UpdateListQuery \/ UpdateListApply

SpecConc == Init /\ [][NextConc]_vars

\* ---- vocabulary of the properties -----------------------------------------
OpenListsOf(ls, u) == {k \in DOMAIN ls : ls[k].user_id = u /\ ls[k].open}

Owns(ls, u, list_id) == \E k \in DOMAIN ls : ls[k].id = list_id /\ ls[k].user_id = u

ListExists(ls, list_id) == \E k \in DOMAIN ls : ls[k].id = list_id

ItemIn(its, list_id, item_id) == \E k \in DOMAIN its : its[k].id = item_id /\ its[k].list_id = list_id

StoreUnchanged == lists' = lists /\ items' = items

\* The step answers a request of the given operation.
Answers(op) == req = NoReq /\ req'.op = op

\* ---- C1 -------------------------------------------------------------------
\* C1: with requests executed atomically one after another, every committed
\* state has at most one list with open = true per user.
C1_AtMostOneOpen == \A u \in Users : Cardinality(OpenListsOf(lists, u)) <= 1

\* The guard has acted: a user who owns an open list and a closed list was
\* refused the re-opening of the closed one.
C1_Witness ==
    /\ req.op = "update_list" /\ req.open = Some(TRUE) /\ resp.status = 400
    /\ OpenListsOf(lists, req.user) # {}
    /\ \E k \in DOMAIN lists : lists[k].id = req.list_id /\ lists[k].user_id = req.user /\ ~lists[k].open

\* ---- C2 -------------------------------------------------------------------
\* Requests of u in flight that passed the open-list query and will commit an open list.
IsOpener(u, q) == q.user = u /\ q.open = Some(TRUE)

Openers(u) == BagOfAll(LAMBDA q : IsOpener(u, q), pending)

\* C2: when the open-list query and the commit of different requests
\* interleave, a user can end up owning two open lists (C2_Witness); every
\* open list beyond the first is one request that passed the query before
\* another one committed, so open lists plus such requests in flight never
\* exceed the number of concurrent requests.
C2_RaceBounded == \A u \in Users : Cardinality(OpenListsOf(lists, u)) + CopiesIn(TRUE, Openers(u)) <= MaxReq

\* Two requests of one user have both succeeded: the user owns two open lists.
C2_Witness == \E u \in Users : Cardinality(OpenListsOf(lists, u)) >= 2 /\ resp.status = 200

\* ---- C3 -------------------------------------------------------------------
\* C3: whenever the caller already owns an open list, create_list (with either
\* boolean open value and any items, null included) is refused with 403 and
\* adds no list and no item.
C3_Step ==
    (Answers("create_list") /\ req'.open # NoneV /\ OpenListsOf(lists, req'.user) # {})
        => (resp'.status = 403 /\ StoreUnchanged)

C3_RefusedWhileOpen == [][C3_Step]_vars

C3_Witness ==
    /\ req.op = "create_list" /\ req.open = Some(FALSE) /\ req.sub \in {Some(s) : s \in SeqsUpTo(SubmitItem, MaxItems) \ {<<>>}}
    /\ OpenListsOf(lists, req.user) # {}
    /\ resp.status = 403

\* ---- C4 -------------------------------------------------------------------
\* C4 as claimed: create_list with an empty item sequence answers 400 whatever
\* the open flag and whatever lists the caller owns, and persists nothing.
C4_Step ==
    (Answers("create_list") /\ req'.open # NoneV /\ req'.sub = Some(<<>>))
        => (resp'.status = 400 /\ StoreUnchanged)

C4_Original == [][C4_Step]_vars

\* C4 amended: create_list with an empty item sequence always fails and
\* persists nothing, whatever the open flag: with 400 when the caller owns no
\* open list, with 403 when the caller owns one.
C4_AmendedStep ==
    (Answers("create_list") /\ req'.open # NoneV /\ req'.sub = Some(<<>>))
        => /\ StoreUnchanged
           /\ resp'.status = (IF OpenListsOf(lists, req'.user) = {} THEN 400 ELSE 403)

C4_Amended == [][C4_AmendedStep]_vars

\* An empty submission from a caller whose only list is closed.
C4_Witness ==
    /\ req.op = "create_list" /\ req.sub = Some(<<>>) /\ req.open # NoneV
    /\ resp.status = 400
    /\ OpenListsOf(lists, req.user) = {}
    /\ \E k \in DOMAIN lists : lists[k].user_id = req.user

\* ---- C5 -------------------------------------------------------------------
\* The one response get_items / update_item give for anything they cannot resolve.
NotFoundResponse(op) == [status |-> 404, detail |-> (IF op = "get_items" THEN "List not found" ELSE "Item not found"), body |-> <<>>]

\* The request names (with well-formed identifiers) a list the caller does not
\* own, or an item that is not in the named list.
Unresolvable(ls, its, q) ==
    /\ q.list_id # Malformed
    /\ \/ ~Owns(ls, q.user, q.list_id)
       \/ q.op = "update_item" /\ q.item_id # Malformed /\ ~ItemIn(its, q.list_id, q.item_id)

\* C5: get_items and update_item answer a request naming another user's list,
\* or an item outside the named list, with the very response they give for an
\* identifier that does not exist (404, never 403), and modify nothing.
C5_Step ==
    ((Answers("get_items") \/ Answers("update_item")) /\ Unresolvable(lists, items, req'))
        => (resp' = NotFoundResponse(req'.op) /\ StoreUnchanged)

C5_ForeignLooksAbsent == [][C5_Step]_vars

\* update_item was asked for another user's existing list and an item of it.
C5_Witness ==
    /\ req.op = "update_item"
    /\ ListExists(lists, req.list_id) /\ ~Owns(lists, req.user, req.list_id)
    /\ ItemIn(items, req.list_id, req.item_id)
    /\ resp = NotFoundResponse("update_item")

\* ---- C6 -------------------------------------------------------------------
\* C6: update_list on a (well-formed) list identifier that does not exist or
\* belongs to another user answers 404 whatever lists the caller owns, also
\* when the caller owns an open list. Stated for the requested open values
\* true and false; a payload without an open value is the case of C8.
C6_Step ==
    (Answers("update_list") /\ req'.list_id # Malformed /\ req'.open # NoneV /\ ~Owns(lists, req'.user, req'.list_id))
        => resp'.status = 404

C6_Claim == [][C6_Step]_vars

\* ---- C7 -------------------------------------------------------------------
OwnsOtherOpen(ls, u, list_id) == \E k \in OpenListsOf(ls, u) : ls[k].id # list_id

\* C7: update_list with open = true on a list of the caller is refused with
\* 400 exactly when the caller owns an open list other than the target; when
\* the target is the caller's only open list it succeeds and stays open.
C7_Step ==
    (Answers("update_list") /\ req'.open = Some(TRUE) /\ Owns(lists, req'.user, req'.list_id))
        => /\ resp'.status = 400 <=> OwnsOtherOpen(lists, req'.user, req'.list_id)
           /\ ~OwnsOtherOpen(lists, req'.user, req'.list_id)
                => /\ resp'.status = 200
                   /\ \E k \in OpenListsOf(lists', req'.user) : lists'[k].id = req'.list_id

C7_Claim == [][C7_Step]_vars

\* ---- C8 -------------------------------------------------------------------
\* C8: update_list on a list of the caller with no open value in the payload
\* answers 204, returns the list as stored and leaves the store unchanged.
C8_Step ==
    (Answers("update_list") /\ req'.open = NoneV /\ Owns(lists, req'.user, req'.list_id))
        => /\ resp'.status = 204
           /\ \E k \in DOMAIN lists : lists[k].id = req'.list_id /\ resp'.body = <<lists[k]>>
           /\ StoreUnchanged

C8_Claim == [][C8_Step]_vars

\* ---- C9 -------------------------------------------------------------------
\* What get_items shows after the step for the list the request names.
ShownAfter == get_items(lists', items', req'.user, req'.list_id)

\* C9: a successful update_item changes only the open flag of the addressed
\* item, to the submitted value: names and list_ids stay as created whatever
\* name was submitted, sibling items and all lists are untouched, and a later
\* get_items of that list shows the new flag for that item and the old rows
\* for its siblings.
C9_Step ==
    (Answers("update_item") /\ resp'.status = 200)
        => /\ lists' = lists
           /\ DOMAIN items' = DOMAIN items
           /\ \A k \in DOMAIN items :
                items'[k] = IF items[k].id = req'.item_id
                            THEN [id |-> items[k].id, list_id |-> items[k].list_id, name |-> items[k].name, open |-> (req'.open = Some(TRUE))]
                            ELSE items[k]
           /\ ShownAfter.status = 200
           /\ Len(ShownAfter.body) = Cardinality({k \in DOMAIN items : items[k].list_id = req'.list_id})
           /\ \A j \in DOMAIN ShownAfter.body :
                LET row == ShownAfter.body[j]
                IN IF row.id = req'.item_id
                   THEN row.open = (req'.open = Some(TRUE)) /\ \E k \in DOMAIN items : items[k].id = row.id /\ items[k].name = row.name
                   ELSE \E k \in DOMAIN items : items[k] = row /\ row.list_id = req'.list_id
           /\ \E j \in DOMAIN ShownAfter.body : ShownAfter.body[j].id = req'.item_id

C9_OnlyOpenChanges == [][C9_Step]_vars

\* An item was updated with a name other than its own, in a list that has a
\* sibling item whose flag differs from the submitted one.
C9_Witness ==
    /\ req.op = "update_item" /\ resp.status = 200
    /\ \E k \in DOMAIN items :
          /\ items[k].id = req.item_id /\ items[k].name # req.name /\ Some(items[k].open) = req.open
    /\ \E k \in DOMAIN items :
          /\ items[k].list_id = req.list_id /\ items[k].id # req.item_id /\ Some(items[k].open) # req.open

\* ---- C10 ------------------------------------------------------------------
IsOwnedBy(u, l) == l.user_id = u

OwnLists(ls, u) == SelectSeq(ls, LAMBDA l : IsOwnedBy(u, l))

IsItemOfUser(ls, u, it) == Owns(ls, u, it.list_id)

OwnItems(ls, its, u) == SelectSeq(its, LAMBDA it : IsItemOfUser(ls, u, it))

\* C10: the outcome of create_list depends only on the caller's own lists: it
\* is the outcome the same request has in the store stripped of every other
\* user's lists and items (so any two states that agree on the caller's lists
\* give the same outcome), and the call changes no list or item of another user.
C10_Step ==
    Answers("create_list")
        => /\ resp'.status = create_list(OwnLists(lists, req'.user), OwnItems(lists, items, req'.user), req'.user, req'.open, req'.sub).status
           /\ OwnLists(lists', req'.user) = OwnLists(lists, req'.user) \/ resp'.status = 200
           /\ \A v \in Users \ {req'.user} :
                /\ OwnLists(lists', v) = OwnLists(lists, v)
                /\ OwnItems(lists', items', v) = OwnItems(lists, items, v)

C10_OwnListsDecide == [][C10_Step]_vars

\* A create_list succeeded while another user owned an open list.
C10_Witness ==
    /\ req.op = "create_list" /\ resp.status = 200
    /\ \E v \in Users \ {req.user} : \E k \in OpenListsOf(lists, v) : lists[k].id # resp.body[1].id

\* ---- C11 ------------------------------------------------------------------
\* The rows a sequence holds.
RowsOf(b) == {b[j] : j \in DOMAIN b}

\* The caller's lists that pass the filter (all of them when it is absent).
Expected(ls, u, open) == {ls[k] : k \in {x \in DOMAIN ls : ls[x].user_id = u /\ (open = NoneV \/ open = Some(ls[x].open))}}

\* C11: get_lists returns exactly the lists owned by the caller when the
\* filter is absent and exactly those of them whose open flag equals the
\* filter when it is given (each once), never a list of another user, and
\* never changes the store.
C11_Step ==
    Answers("get_lists")
        => /\ resp'.status = 200
           /\ RowsOf(resp'.body) = Expected(lists, req'.user, req'.open)
           /\ Len(resp'.body) = Cardinality(Expected(lists, req'.user, req'.open))
           /\ \A j \in DOMAIN resp'.body : resp'.body[j].user_id = req'.user
           /\ StoreUnchanged

C11_ExactlyOwnFiltered == [][C11_Step]_vars

\* A filtered get_lists returned the caller's one list while another user
\* owns a list with the requested flag.
C11_Witness ==
    /\ req.op = "get_lists" /\ req.open # NoneV /\ resp.status = 200
    /\ Len(resp.body) = 1
    /\ \E k \in DOMAIN lists : lists[k].user_id # req.user /\ Some(lists[k].open) = req.open

\* ---- C12 ------------------------------------------------------------------
ClientErrors == {400, 404, 422}

\* The request names a malformed list identifier or item identifier.
NamesMalformed(q) == q.list_id = Malformed \/ (q.op = "update_item" /\ q.item_id = Malformed)

\* C12: update_list, get_items and update_item answer a malformed identifier
\* with a client error (validation error, not found or bad request), never
\* with an unhandled fault, and leave the store unchanged.
C12_Step ==
    ((Answers("update_list") \/ Answers("get_items") \/ Answers("update_item")) /\ NamesMalformed(req'))
        => (resp'.status \in ClientErrors /\ StoreUnchanged)

C12_Claim == [][C12_Step]_vars

\* ---- C13 ------------------------------------------------------------------
\* C13: a successful create_list persists its list with open = true whatever
\* boolean open value was submitted, so right after it the caller owns exactly
\* one open list, the new one; while a user owns an open list every
\* create_list of that user is refused and adds nothing, and an open list is
\* closed only by update_list with open = false from its owner.
C13_Step ==
    /\ (Answers("create_list") /\ resp'.status = 200)
         => /\ Len(lists') = Len(lists) + 1
            /\ lists'[Len(lists')].user_id = req'.user
            /\ lists'[Len(lists')].open
            /\ resp'.body = <<lists'[Len(lists')]>>
            /\ OpenListsOf(lists', req'.user) = {Len(lists')}
    /\ (Answers("create_list") /\ OpenListsOf(lists, req'.user) # {})
         => (resp'.status # 200 /\ StoreUnchanged)
    /\ \A k \in DOMAIN lists :
         (lists[k].open /\ ~lists'[k].open)
            => /\ Answers("update_list") /\ req'.open = Some(FALSE)
               /\ req'.user = lists[k].user_id /\ req'.list_id = lists[k].id

C13_NewListIsTheOpenOne == [][C13_Step]_vars

\* A create_list that submitted open = false succeeded for a user who already
\* owned a (closed) list.
C13_Witness ==
    /\ req.op = "create_list" /\ req.open = Some(FALSE) /\ resp.status = 200
    /\ resp.body[1].open
    /\ \E k \in DOMAIN lists : lists[k].user_id = req.user /\ ~lists[k].open
====
